---- MODULE Spec2Model ----
(***************************************************************************)
(* Model of opendrive-engine: the conversion pipeline of                   *)
(* src/src/convertor.cc (Convertor::Start and the stages it chains) and    *)
(* the k-d tree wrapper of src/unnamed/part_000 (KDTreeAdaptor, KDTree).   *)
(*                                                                         *)
(* Numbers.  Arc lengths are integers in units of 0.05, so the step floor  *)
(* 0.1 is 2 and the section length 0.25 is 5.  Lateral offsets are         *)
(* integers; lane widths are even so that half a width is an integer.      *)
(* The comparison tolerance 1e-10 of CenterLaneSampling is below the       *)
(* resolution of the integers: d >= step - 1e-10 is d >= step.             *)
(*                                                                         *)
(* Ids.  The code builds ids by joining decimal integers with "_".  A      *)
(* decimal integer holds no "_", so the joined string and the tuple of its *)
(* integers determine each other: the id "3_0_-1" is <<3, 0, -1>>, and the *)
(* empty string of a default-constructed object is <<>>.                   *)
(*                                                                         *)
(* Objects.  std::shared_ptr objects live in the heaps roadObjs, secObjs   *)
(* and laneObjs; an address is an index into the heap and 0 is nullptr.    *)
(* The repository maps (roads, sections, lanes) hold addresses, as the     *)
(* road's section list and the section's lane lists do.                    *)
(***************************************************************************)
EXTENDS Integers, Sequences, FiniteSets, TLC

VARIABLES
    pc,               \* position of the pipeline inside Convertor::Start
    status,           \* Convertor::status_
    step_,            \* Convertor::step_
    ele_map,          \* the parsed map (opendrive::element::Map) of this run
    center_line_pts,  \* Convertor::center_line_pts_
    header,           \* core::Data header
    roads,            \* core::Data roads map: id -> road address
    sections,         \* core::Data sections map: id -> section address
    lanes,            \* core::Data lanes map: id -> lane address
    junctions,        \* core::Data junction map: id -> junction
    roadObjs,         \* heap of core::Road
    secObjs,          \* heap of core::Section
    laneObjs,         \* heap of core::Lane
    road_it,          \* ConvertRoad: position of the loop over ele_map->roads()
    road,             \* ConvertRoad: the road being converted (address)
    sec_it,           \* ConvertSection: position of the loop over lane_sections()
    section,          \* ConvertSection: the section being converted (address)
    section_idx,      \* ConvertSection: section_idx
    road_ds,          \* ConvertSection: road_ds, passed by reference to CenterLaneSampling
    section_ds,       \* CenterLaneSampling: section_ds
    point_idx,        \* CenterLaneSampling: point_idx
    geometry_type,    \* CenterLaneSampling: geometry_type
    lookup_miss,      \* history: sections in whose sampling a geometry lookup found no segment
    lookup_lib,       \* what the lookup of the library answers when no segment covers s
    runs,             \* number of calls of Start so far
    first_in,         \* the input of the first call of Start
    run_in,           \* the input of the current call of Start
    prev,             \* history: the outcome of the last call of Start that had the first input
    adaptor_matrix,   \* KDTreeAdaptor::matrix_
    adaptor_ids,      \* KDTreeAdaptor::ids_
    index_,           \* KDTree::index_
    rw_lock,          \* KDTree::rw_lock_: "free" or "write"
    b_pc,             \* the thread inside KDTree::Init: its position
    b_samples,        \* KDTree::Init: the samples argument
    b_before,         \* history: the number of points indexed before the last KDTree::Init
    q_pc,             \* per query thread: its position inside KDTree::Search
    q_arg,            \* per query thread: the arguments x, y, num_closest
    q_knn,            \* per query thread: the vectors indices and dists
    q_results,        \* per query thread: the caller's results vector
    q_ret             \* per query thread: the value the last Search returned

runVars == <<runs, first_in, run_in, prev>>

convVars == <<pc, status, step_, ele_map, center_line_pts, header, roads, sections,
              lanes, junctions, roadObjs, secObjs, laneObjs, road_it, road, sec_it,
              section, section_idx, road_ds, section_ds, point_idx, geometry_type,
              lookup_miss, lookup_lib, runVars>>

treeVars == <<adaptor_matrix, adaptor_ids, index_>>

buildVars == <<rw_lock, b_pc, b_samples, b_before>>

queryVars == <<q_pc, q_arg, q_knn, q_results, q_ret>>

kdVars == <<treeVars, buildVars, queryVars>>

vars == <<convVars, kdVars>>

(***************************************************************************)
(* Bounds of the model.                                                    *)
(***************************************************************************)
MaxRoads == 2
MaxSections == 2
MaxLanes == 2
MaxLen == 5
MaxStep == 3
MaxPoints == 3
MaxK == 4
NumThreads == 2
MaxRuns == 2

\* std::max<float>(0.1, param_->step): 0.1 in units of 0.05
StepFloor == 2

\* the samples the model lets CenterLaneSampling take in one section; the loop
\* of the code has no such bound, and no section of the inputs needs as many
MaxSamples == MaxLen \div StepFloor + 2

Max(a, b) == IF a >= b THEN a ELSE b

SeqsUpTo(S, n) == UNION {[1..k -> S] : k \in 0..n}

NonEmptySeqsUpTo(S, n) == UNION {[1..k -> S] : k \in 1..n}

(***************************************************************************)
(* Status and the fail-fast flag.                                          *)
(***************************************************************************)
Status(code, text, arg) == [error_code |-> code, msg |-> [text |-> text, arg |-> arg]]

StatusOK == Status("OK", "ok", <<>>)

FactoryError == Status("INIT_FACTORY_ERROR", "factory error.", <<>>)

MapFileError == Status("INIT_MAPFILE_ERROR", "input file error: ", <<>>)

CenterLaneError(section_id) ==
    Status("CONVERTOR_CENTERLANE_ERROR", " center lane size not equal 1.", section_id)

GeometryError == Status("CONVERTOR_CENTERLANE_ERROR", "get geometry index execption.", <<>>)

\* faulty variant: the stages do not test the flag
Continue_Always == TRUE

Continue == status.error_code = "OK"

(***************************************************************************)
(* The external geometry library, as the conversion uses it.               *)
(***************************************************************************)
\* element::Geometry::GetPoint: the reference line runs along the x axis
GetPoint(geometry, s) == [x |-> geometry.x0 + (s - geometry.s), y |-> 0, heading |-> 0]

\* common::GetOffsetPoint: shift perpendicular to the heading (heading 0: along +y)
GetOffsetPoint(p, offset) == [p EXCEPT !.y = @ + offset]

\* common::GetGtPtrPoloy3: the results the lookup can hand to GetGeometry. The
\* first segment whose upper bound exceeds s (0-based); when none covers s the
\* library's answer is one of the two values GetGeometry tests for.
GetGtPtrPoloy3(geometrys, s) ==
    LET covering == {i \in 1..Len(geometrys) : s < geometrys[i].s + geometrys[i].length}
    IN  IF covering = {}
        THEN {-1, Len(geometrys)}
        ELSE {(CHOOSE i \in covering : \A j \in covering : i <= j) - 1}

\* common::GetGeValuePoloy3: the last record that starts at or before s (0-based)
GetGeValuePoloy3(offsets, s) ==
    LET before == {i \in 1..Len(offsets) : offsets[i].s <= s}
    IN  IF before = {} THEN -1
        ELSE (CHOOSE i \in before : \A j \in before : i >= j) - 1

\* element::Lane::GetLaneWidth
GetLaneWidth(ele_lane, s) == ele_lane.width

(***************************************************************************)
(* Convertor::GetGeometry and Convertor::GetLaneOffsetValue.               *)
(***************************************************************************)
\* the status GetGeometry leaves for lookup result geometry_idx
GetGeometryStatus(st, geometry_idx) ==
    IF geometry_idx < 0 THEN GeometryError ELSE st

\* the segment GetGeometry returns (0 is nullptr, else the 1-based position)
GetGeometry(geometrys, geometry_idx) ==
    IF geometry_idx < 0 THEN 0
    ELSE IF geometry_idx < Len(geometrys) THEN geometry_idx + 1
    ELSE 0

GetLaneOffsetValue(offsets, s) ==
    LET offset_idx == GetGeValuePoloy3(offsets, s)
    IN  IF offset_idx >= 0 /\ offset_idx < Len(offsets)
        THEN offsets[offset_idx + 1].a
        ELSE 0

(***************************************************************************)
(* Objects.                                                                *)
(***************************************************************************)
NewRoad == [id |-> <<>>, predecessor_ids |-> {}, successor_ids |-> {}, sections |-> <<>>]

NewSection == [id |-> <<>>, parent_id |-> <<>>, start_position |-> 0, end_position |-> 0,
               length |-> 0, center_lane |-> 0, left_lanes |-> <<>>, right_lanes |-> <<>>]

NewLane == [id |-> <<>>, parent_id |-> <<>>, central_curve |-> <<>>, left_boundary |-> <<>>,
            right_boundary |-> <<>>, geometrys |-> <<>>]

\* std::map::operator[]= : insert, or overwrite the entry of the same key
MapPut(m, key, value) == (key :> value) @@ m

EmptyMap == <<>>

(***************************************************************************)
(* Convertor::ConvertRoadAttr.                                             *)
(***************************************************************************)
ConvertRoadAttr(ele_road, r) ==
    [r EXCEPT !.id = <<ele_road.id>>,
              !.predecessor_ids =
                  IF -1 # ele_road.predecessor THEN @ \cup {<<ele_road.predecessor>>} ELSE @,
              !.successor_ids =
                  IF -1 # ele_road.successor THEN @ \cup {<<ele_road.successor>>} ELSE @]

(***************************************************************************)
(* Convertor::CenterLaneSampling, one iteration of its loop at a time.     *)
(***************************************************************************)
\* faulty variant: the loop ends as soon as section_ds passes the end, without the clamped sample
SamplingBreaks_NoClamp(ds, length, step) == ds > length

\* faulty variant: the loop ends only when section_ds is more than a step past the end
SamplingBreaks_Strict(ds, length, step) == ds > length /\ ds - length > step

\* lines 243-246: the loop ends once section_ds is a whole step past the end
SamplingBreaks(ds, length, step) == ds > length /\ ds - length >= step

\* line 248: the last sample is clamped to the section's end
ClampedSectionDs(ds, length) == IF ds > length THEN length ELSE ds

\* line 249, which runs after line 248 has already overwritten section_ds
ClampedRoadDs(rds, ds, length) ==
    IF ds > length
    THEN LET clamped == ClampedSectionDs(ds, length) IN rds - (clamped - length)
    ELSE rds

\* lines 256-274: the sampled point
CenterPoint(lane_id, geometry, offsets, rds, ds, idx) ==
    LET refe_point == GetPoint(geometry, rds)
        offset == GetLaneOffsetValue(offsets, rds)
        at == IF 0 # offset THEN GetOffsetPoint(refe_point, offset) ELSE refe_point
    IN  [x |-> at.x, y |-> at.y, heading |-> at.heading, start_position |-> ds,
         id |-> lane_id \o <<idx>>]

\* faulty variant: a marker for every sample
WithGeometryMarker_Always(lane, gtype, geo, point) ==
    [lane EXCEPT !.geometrys = Append(@, [type |-> geo.type, point |-> point])]

\* lines 275-283: a marker when the geometry type changes
WithGeometryMarker(lane, gtype, geo, point) ==
    IF gtype # geo.type
    THEN [lane EXCEPT !.geometrys = Append(@, [type |-> geo.type, point |-> point])]
    ELSE lane

\* lines 284-297: the point goes to the central curve and to both boundaries
WithCenterPoint(lane, point) ==
    [lane EXCEPT !.central_curve = Append(@, point),
                 !.left_boundary = Append(@, point),
                 !.right_boundary = Append(@, point)]

(***************************************************************************)
(* Convertor::LaneSampling and Convertor::AppendKDTreeSample.              *)
(***************************************************************************)
\* faulty variant: the centerline point is not registered for the index
AppendKDTreeSample_Dropped(pts, point) == pts

AppendKDTreeSample(pts, point) == Append(pts, point)

\* lane_idx.at(2) > "0": a string comparison of the lane's decimal index with
\* "0". A positive integer starts with a digit 1..9 (above '0'), zero is "0"
\* itself and a negative one starts with '-' (below '0').
LaneDir(lane_id) == IF lane_id[3] > 0 THEN 1 ELSE -1

RECURSIVE LaneSamplingLoop(_, _, _, _, _)
\* lines 313-336; acc is [lane, pts], k the position in refe_line
LaneSamplingLoop(ele_lane, acc, refe_line, lane_dir, k) ==
    IF k > Len(refe_line) THEN acc
    ELSE LET refe_point == refe_line[k]
             lane_width == GetLaneWidth(ele_lane, refe_point.start_position) * lane_dir
             point_id == acc.lane.id \o <<k - 1>>
             left == [refe_point EXCEPT !.id = point_id \o <<1>>]
             mid == [GetOffsetPoint(refe_point, lane_width \div 2)
                         EXCEPT !.id = point_id \o <<2>>]
             right == [GetOffsetPoint(refe_point, lane_width) EXCEPT !.id = point_id \o <<3>>]
             lane1 == [acc.lane EXCEPT !.left_boundary = Append(@, left),
                                       !.central_curve = Append(@, mid),
                                       !.right_boundary = Append(@, right)]
         IN  LaneSamplingLoop(ele_lane,
                              [lane |-> lane1, pts |-> AppendKDTreeSample(acc.pts, mid)],
                              refe_line, lane_dir, k + 1)

\* faulty variant: the first reference point is left out
LaneSampling_SkipFirst(ele_lane, lane, refe_line, pts) ==
    LaneSamplingLoop(ele_lane, [lane |-> lane, pts |-> pts], refe_line, LaneDir(lane.id), 2)

LaneSampling(ele_lane, lane, refe_line, pts) ==
    LaneSamplingLoop(ele_lane, [lane |-> lane, pts |-> pts], refe_line, LaneDir(lane.id), 1)

(***************************************************************************)
(* Convertor::ConvertSection, the lanes of one section (lines 176-211).    *)
(* refe_line is a C++ reference bound once, at line 179, to the center     *)
(* lane's left boundary: every later "refe_line = ..." assigns through it  *)
(* and so overwrites the center lane's left boundary.                      *)
(***************************************************************************)
\* faulty variant: the next lane is stitched to the lane's central curve
NextRefeLine_Central(lane) == lane.central_curve

\* lines 193 and 210: what is assigned through refe_line after a lane
NextRefeLine(lane) == lane.right_boundary

RECURSIVE ConvertLaneList(_, _, _, _, _)
\* lines 185-194 and 202-211; st is [laneObjs, lanes, pts, list], c the center lane
ConvertLaneList(st, ele_lanes, i, section_id, c) ==
    IF i > Len(ele_lanes) THEN st
    ELSE LET ele_lane == ele_lanes[i]
             fresh == [NewLane EXCEPT !.id = section_id \o <<ele_lane.id>>,
                                      !.parent_id = section_id]
             refe_line == st.laneObjs[c].left_boundary
             done == LaneSampling(ele_lane, fresh, refe_line, st.pts)
             addr == Len(st.laneObjs) + 1
             objs == [Append(st.laneObjs, done.lane)
                          EXCEPT ![c].left_boundary = NextRefeLine(done.lane)]
         IN  ConvertLaneList([laneObjs |-> objs,
                              lanes |-> MapPut(st.lanes, done.lane.id, addr),
                              pts |-> done.pts,
                              list |-> Append(st.list, addr)],
                             ele_lanes, i + 1, section_id, c)

\* line 196: the center lane's right boundary is assigned through refe_line
ResetRefeLine(objs, c) == [objs EXCEPT ![c].left_boundary = objs[c].right_boundary]

(***************************************************************************)
(* KDTreeAdaptor::Init and KDTree::Init.                                   *)
(***************************************************************************)
RECURSIVE AdaptorInitLoop(_, _, _)
\* lines 21-26 of part_000: one node and one id per sample, in order
AdaptorInitLoop(acc, samples, k) ==
    IF k > Len(samples) THEN acc
    ELSE AdaptorInitLoop([matrix |-> Append(acc.matrix, <<samples[k].x, samples[k].y>>),
                          ids |-> Append(acc.ids, samples[k].id)],
                         samples, k + 1)

\* faulty variant: the vectors are not emptied before the loop
AdaptorInit_NoSwap(samples) ==
    AdaptorInitLoop([matrix |-> adaptor_matrix, ids |-> adaptor_ids], samples, 1)

\* lines 18-19 swap both vectors with empty ones before the loop
AdaptorInit(samples) == AdaptorInitLoop([matrix |-> <<>>, ids |-> <<>>], samples, 1)

\* line 63: the index built over samples.size() points of the adaptor
NewIndex(samples) == [null |-> FALSE, size |-> Len(samples)]

NullIndex == [null |-> TRUE, size |-> 0]

\* the number of points the index holds when KDTree::Init is entered
IndexedBefore == IF index_.null THEN 0 - 1 ELSE Len(adaptor_matrix)

(***************************************************************************)
(* The inputs of Start: the factory objects, the map file and the map the  *)
(* parser returns for it. The maps are drawn from five bounded families.   *)
(***************************************************************************)
Line(s, len, type) == [s |-> s, length |-> len, type |-> type, x0 |-> s]

EleLane(id, width) == [id |-> id, width |-> width]

EleSection(start, end, center, left, right) ==
    [start_position |-> start, end_position |-> end, center |-> center,
     left |-> left, right |-> right]

EleRoad(id, pred, succ, geometrys, offsets, secs) ==
    [id |-> id, predecessor |-> pred, successor |-> succ, geometrys |-> geometrys,
     lane_offsets |-> offsets, sections |-> secs]

EleMap(rs, js) == [roads |-> rs, junctions |-> js]

\* a geometry long enough to cover every position any family samples
GeoLong == (MaxLen + 2 * MaxStep) * (MaxSections + 1)

Widths == {0, 2}

\* left lanes carry the ids 1, 2, ... and right lanes -1, -2, ..., from the center outwards
LeftLanes(ws) == [k \in 1..Len(ws) |-> EleLane(k, ws[k])]

RightLanes(ws) == [k \in 1..Len(ws) |-> EleLane(0 - k, ws[k])]

RECURSIVE SumTo(_, _)
SumTo(lens, k) == IF k = 0 THEN 0 ELSE SumTo(lens, k - 1) + lens[k]

\* contiguous sections of the given lengths: section i ends where section i+1 starts
Contiguous(lens, center, left, right) ==
    [k \in 1..Len(lens) |->
        EleSection(SumTo(lens, k - 1), SumTo(lens, k), center, left, right)]

\* family 1, links: roads with negative ids and links that name any road or none
LinkRoads ==
    {EleRoad(id, p, s, <<Line(0, GeoLong, 0)>>, <<>>,
             Contiguous(<<2>>, 1, LeftLanes(<<2>>), <<>>)) :
        id \in {-1, 0, 1}, p \in {-1, 1}, s \in {-1, 0}}

LinkInputs ==
    {[step |-> StepFloor, map |-> EleMap(rs, <<-1, 0>>)] : rs \in SeqsUpTo(LinkRoads, MaxRoads)}

\* family 2, errors: n roads of ns sections each, at most one section whose
\* center lane count is not 1, over a geometry that is long or ends at 1
ErrorSections(r, ns, defect) ==
    [k \in 1..ns |->
        EleSection(3 * (k - 1), 3 * k,
                   IF defect.road = r /\ defect.sec = k THEN defect.center ELSE 1,
                   LeftLanes(<<2>>), <<>>)]

ErrorMap(n, ns, defect, extent) ==
    EleMap([r \in 1..n |->
                EleRoad(r - 1, -1, -1, <<Line(0, extent, 0)>>, <<>>,
                        ErrorSections(r, ns, defect))],
           <<0>>)

Defects(n, ns) ==
    {[road |-> 0, sec |-> 0, center |-> 1]}
        \cup [road : 1..n, sec : 1..ns, center : {0, 2}]

ErrorInputs ==
    {[step |-> StepFloor, map |-> ErrorMap(sh[1], sh[2], defect, extent)] :
        sh \in (1..MaxRoads) \X (1..MaxSections),
        defect \in Defects(MaxRoads, MaxSections),
        extent \in {1, GeoLong}}

\* family 3, sampling: one road of contiguous sections, the first of every
\* length up to MaxLen and the later ones empty, shorter than a step or of
\* length MaxLen, over one, two or three geometry segments; a step below the
\* floor is given with the first geometry
SamplingGeometrys ==
    {<<Line(0, GeoLong, 0)>>, <<Line(0, 3, 0), Line(3, GeoLong, 1)>>, <<Line(0, 4, 0)>>,
     <<Line(0, 2, 0), Line(2, 2, 1), Line(4, GeoLong, 0)>>}

SamplingLengths ==
    {lens \in NonEmptySeqsUpTo(0..MaxLen, MaxSections) :
        \A k \in 2..Len(lens) : lens[k] \in {0, 1, MaxLen}}

SamplingSteps ==
    {dg \in {0, StepFloor, MaxStep} \X SamplingGeometrys :
        dg[1] >= StepFloor \/ dg[2] = <<Line(0, GeoLong, 0)>>}

SamplingInputs ==
    {[step |-> dg[1],
      map |-> EleMap(<<EleRoad(0, -1, -1, dg[2], <<>>, Contiguous(lens, 1, <<>>, <<>>))>>,
                     <<>>)] :
        dg \in SamplingSteps, lens \in SamplingLengths}

\* family 4, lanes: one section with up to MaxLanes lanes of either width on
\* each side, with and without a lane offset
LaneInputs ==
    {[step |-> StepFloor,
      map |-> EleMap(<<EleRoad(0, -1, -1, <<Line(0, GeoLong, 0)>>, off,
                               Contiguous(<<3>>, 1, LeftLanes(l), RightLanes(r)))>>, <<>>)] :
        off \in {<<>>, <<[s |-> 0, a |-> 1]>>},
        l \in SeqsUpTo(Widths, MaxLanes),
        r \in SeqsUpTo(Widths, MaxLanes)}

\* family 5, negative lengths: one section that ends before it starts
NegativeInputs ==
    {[step |-> d,
      map |-> EleMap(<<EleRoad(0, -1, -1, <<Line(0, GeoLong, 0)>>, <<>>,
                               Contiguous(<<len>>, 1, LeftLanes(<<2>>), <<>>))>>, <<>>)] :
        d \in {StepFloor, MaxStep},
        len \in (0 - MaxStep)..(0 - 1)}

MapInputs == LinkInputs \cup ErrorInputs \cup SamplingInputs \cup LaneInputs \cup NegativeInputs

NoMap == EleMap(<<>>, <<>>)

\* factory: param_ and data_ were found; file: the map file exists; parse: ParseMap succeeded
StartInputs ==
    {[factory |-> FALSE, file |-> TRUE, parse |-> TRUE, step |-> StepFloor, map |-> NoMap],
     [factory |-> TRUE, file |-> FALSE, parse |-> TRUE, step |-> StepFloor, map |-> NoMap],
     [factory |-> TRUE, file |-> TRUE, parse |-> FALSE, step |-> StepFloor, map |-> NoMap]}
        \cup {[factory |-> TRUE, file |-> TRUE, parse |-> TRUE, step |-> in.step, map |-> in.map] :
                in \in MapInputs}

InitFailures == {in \in StartInputs : ~in.factory \/ ~in.file \/ ~in.parse}

NoInput == [factory |-> TRUE, file |-> TRUE, parse |-> TRUE, step |-> 0, map |-> NoMap]

\* no call of Start came before
NoRun == [in |-> NoInput, ran |-> FALSE]

(***************************************************************************)
(* The state before Start: an empty repository and a k-d tree that was     *)
(* never built.                                                            *)
(***************************************************************************)
ConvInit ==
    /\ pc = "start"
    /\ status = StatusOK
    /\ step_ = StepFloor
    /\ ele_map = NoMap
    /\ center_line_pts = <<>>
    /\ header = "none"
    /\ roads = EmptyMap
    /\ sections = EmptyMap
    /\ lanes = EmptyMap
    /\ junctions = EmptyMap
    /\ roadObjs = <<>>
    /\ secObjs = <<>>
    /\ laneObjs = <<>>
    /\ road_it = 0
    /\ road = 0
    /\ sec_it = 0
    /\ section = 0
    /\ section_idx = 0
    /\ road_ds = 0
    /\ section_ds = 0
    /\ point_idx = 0
    /\ geometry_type = -1
    /\ lookup_miss = {}
    /\ lookup_lib = "unknown"
    /\ runs = 0
    /\ first_in = NoInput
    /\ run_in = NoInput
    /\ prev = NoRun

Threads == 1..NumThreads

NoArg == [x |-> 0, y |-> 0, num_closest |-> 0]

NoKnn == [indices |-> <<>>, dists |-> <<>>]

\* b_before when KDTree::Init has run at most once
NeverBuilt == 0 - 1

KDInit ==
    /\ adaptor_matrix = <<>>
    /\ adaptor_ids = <<>>
    /\ index_ = NullIndex
    /\ rw_lock = "free"
    /\ b_pc = "idle"
    /\ b_samples = <<>>
    /\ b_before = NeverBuilt
    /\ q_pc = [t \in Threads |-> "idle"]
    /\ q_arg = [t \in Threads |-> NoArg]
    /\ q_knn = [t \in Threads |-> NoKnn]
    /\ q_results = [t \in Threads |-> <<>>]
    /\ q_ret = [t \in Threads |-> 0]

Init == ConvInit /\ KDInit

(***************************************************************************)
(* Convertor::Start, lines 24-49: the factory objects, the step, the map.  *)
(***************************************************************************)
\* faulty variant: the points collected by the call before are kept
StartClear_Kept(pts) == pts

\* line 28: center_line_pts_.clear()
StartClear(pts) == <<>>

\* one call of Start with the input in, up to the first stage or the early return
StartCall(in) ==
    /\ center_line_pts' = StartClear(center_line_pts)
    /\ IF ~in.factory
       THEN /\ status' = FactoryError
            /\ pc' = "done"
            /\ UNCHANGED <<step_, ele_map>>
       ELSE /\ step_' = Max(StepFloor, in.step)
            /\ IF ~in.file \/ ~in.parse
               THEN /\ status' = MapFileError
                    /\ pc' = "done"
                    /\ UNCHANGED ele_map
               ELSE /\ status' = StatusOK
                    /\ ele_map' = in.map
                    /\ pc' = "header"
    /\ run_in' = in
    /\ runs' = runs + 1
    /\ UNCHANGED <<header, roads, sections, lanes, junctions, roadObjs, secObjs, laneObjs,
                   road_it, road, sec_it, section, section_idx, road_ds, section_ds,
                   point_idx, geometry_type, lookup_miss, lookup_lib, kdVars>>

\* the first call of Start
Start ==
    /\ pc = "start"
    /\ \E in \in StartInputs : StartCall(in) /\ first_in' = in
    /\ UNCHANGED prev

\* Convertor::ConvertHeader
ConvertHeader ==
    /\ pc = "header"
    /\ header' = IF Continue THEN "set" ELSE header
    /\ pc' = "road"
    /\ UNCHANGED <<status, step_, ele_map, center_line_pts, roads, sections, lanes,
                   junctions, roadObjs, secObjs, laneObjs, road_it, road, sec_it, section,
                   section_idx, road_ds, section_ds, point_idx, geometry_type, lookup_miss,
                   lookup_lib, runVars, kdVars>>

\* Convertor::ConvertRoad, line 107: the stage is skipped once the status is an error
ConvertRoad ==
    /\ pc = "road"
    /\ IF Continue
       THEN road_it' = 1 /\ pc' = "roadloop"
       ELSE road_it' = road_it /\ pc' = "junction"
    /\ UNCHANGED <<status, step_, ele_map, center_line_pts, header, roads, sections, lanes,
                   junctions, roadObjs, secObjs, laneObjs, road, sec_it, section,
                   section_idx, road_ds, section_ds, point_idx, geometry_type, lookup_miss,
                   lookup_lib, runVars, kdVars>>

\* Convertor::ConvertRoad, lines 109-112: the next road of the input, its
\* attributes (ConvertRoadAttr) and the entry of ConvertSection (lines 147-151)
RoadIter ==
    /\ pc = "roadloop"
    /\ IF road_it > Len(ele_map.roads)
       THEN /\ pc' = "junction"
            /\ UNCHANGED <<roadObjs, road, road_it, sec_it, section_idx, road_ds>>
       ELSE LET ele_road == ele_map.roads[road_it]
            IN  IF ele_road.id < 0
                THEN /\ road_it' = road_it + 1
                     /\ pc' = "roadloop"
                     /\ UNCHANGED <<roadObjs, road, sec_it, section_idx, road_ds>>
                ELSE /\ roadObjs' = Append(roadObjs,
                                           IF Continue THEN ConvertRoadAttr(ele_road, NewRoad)
                                           ELSE NewRoad)
                     /\ road' = Len(roadObjs) + 1
                     /\ road_it' = road_it
                     /\ IF Continue
                        THEN /\ road_ds' = 0
                             /\ section_idx' = 0
                             /\ sec_it' = 1
                             /\ pc' = "secloop"
                        ELSE /\ pc' = "roadinsert"
                             /\ UNCHANGED <<sec_it, section_idx, road_ds>>
    /\ UNCHANGED <<status, step_, ele_map, center_line_pts, header, roads, sections, lanes,
                   junctions, secObjs, laneObjs, section, section_ds, point_idx,
                   geometry_type, lookup_miss, lookup_lib, runVars, kdVars>>

\* Convertor::ConvertSection, lines 152-173 and 233-240: the next lane section
\* of the road, its center lane and the locals of CenterLaneSampling
SectionIter ==
    /\ pc = "secloop"
    /\ LET ele_road == ele_map.roads[road_it]
       IN  IF sec_it > Len(ele_road.sections)
           THEN /\ pc' = "roadinsert"
                /\ UNCHANGED <<status, sections, roadObjs, secObjs, laneObjs, section,
                               section_idx, section_ds, point_idx, geometry_type>>
           ELSE LET ele_section == ele_road.sections[sec_it]
                    road_id == <<ele_road.id>>
                    sec_addr == Len(secObjs) + 1
                    lane_addr == Len(laneObjs) + 1
                    sec == [NewSection EXCEPT
                               !.id = road_id \o <<section_idx>>,
                               !.parent_id = road_id,
                               !.start_position = ele_section.start_position,
                               !.end_position = ele_section.end_position,
                               !.length = ele_section.end_position
                                              - ele_section.start_position]
                IN  /\ roadObjs' = [roadObjs EXCEPT ![road].sections = Append(@, sec_addr)]
                    /\ section' = sec_addr
                    /\ section_idx' = section_idx + 1
                    /\ sections' = MapPut(sections, sec.id, sec_addr)
                    /\ IF 1 # ele_section.center
                       THEN /\ status' = CenterLaneError(sec.id)
                            /\ secObjs' = Append(secObjs, sec)
                            /\ pc' = "roadinsert"
                            /\ UNCHANGED <<laneObjs, section_ds, point_idx, geometry_type>>
                       ELSE /\ secObjs' = Append(secObjs, [sec EXCEPT !.center_lane = lane_addr])
                            /\ laneObjs' = Append(laneObjs,
                                                  [NewLane EXCEPT !.id = sec.id \o <<0>>,
                                                                  !.parent_id = sec.id])
                            /\ section_ds' = 0
                            /\ point_idx' = 0
                            /\ geometry_type' = -1
                            /\ pc' = "sampling"
                            /\ UNCHANGED status
    /\ UNCHANGED <<step_, ele_map, center_line_pts, header, roads, lanes, junctions,
                   road_it, road, sec_it, road_ds, lookup_miss, lookup_lib, runVars, kdVars>>

\* the library's lookup is a function: what it answered for a position no
\* segment covers, it answers for every such position
LibraryAnswers(geometrys, s, geometry_idx) ==
    IF Cardinality(GetGtPtrPoloy3(geometrys, s)) > 1
    THEN LET answer == IF geometry_idx < 0 THEN "negative" ELSE "past_end"
         IN  lookup_lib \in {"unknown", answer} /\ lookup_lib' = answer
    ELSE lookup_lib' = lookup_lib

\* Convertor::CenterLaneSampling, lines 242-301: one iteration of the loop
CenterLaneSamplingStep ==
    /\ pc = "sampling"
    /\ LET ele_road == ele_map.roads[road_it]
           length == secObjs[section].length
           c == secObjs[section].center_lane
       IN  IF SamplingBreaks(section_ds, length, step_)
           THEN /\ pc' = "lanes"
                /\ UNCHANGED <<status, laneObjs, road_ds, section_ds, point_idx,
                               geometry_type, lookup_miss, lookup_lib>>
           ELSE LET ds == ClampedSectionDs(section_ds, length)
                    rds == ClampedRoadDs(road_ds, section_ds, length)
                IN  \E geometry_idx \in GetGtPtrPoloy3(ele_road.geometrys, rds) :
                       LET g == GetGeometry(ele_road.geometrys, geometry_idx)
                       IN  /\ point_idx < MaxSamples
                           /\ LibraryAnswers(ele_road.geometrys, rds, geometry_idx)
                           /\ status' = GetGeometryStatus(status, geometry_idx)
                           /\ IF g = 0
                              THEN /\ pc' = "lanes"
                                   /\ section_ds' = ds
                                   /\ road_ds' = rds
                                   /\ lookup_miss' = lookup_miss \cup {section}
                                   /\ UNCHANGED <<laneObjs, point_idx, geometry_type>>
                              ELSE LET geometry == ele_road.geometrys[g]
                                       point == CenterPoint(laneObjs[c].id, geometry,
                                                            ele_road.lane_offsets, rds, ds,
                                                            point_idx)
                                   IN  /\ laneObjs' =
                                              [laneObjs EXCEPT ![c] =
                                                  WithCenterPoint(
                                                      WithGeometryMarker(@, geometry_type,
                                                                         geometry, point),
                                                      point)]
                                       /\ geometry_type' = geometry.type
                                       /\ point_idx' = point_idx + 1
                                       /\ section_ds' = ds + step_
                                       /\ road_ds' = rds + step_
                                       /\ pc' = "sampling"
                                       /\ UNCHANGED lookup_miss
    /\ UNCHANGED <<step_, ele_map, center_line_pts, header, roads, sections, lanes,
                   junctions, roadObjs, secObjs, road_it, road, sec_it, section,
                   section_idx, runVars, kdVars>>

\* Convertor::ConvertSection, lines 176-211: the center lane enters the lanes
\* map, then the left lanes and the right lanes are sampled from refe_line
ConvertLanes ==
    /\ pc = "lanes"
    /\ LET ele_section == ele_map.roads[road_it].sections[sec_it]
           c == secObjs[section].center_lane
           sec_id == secObjs[section].id
           st0 == [laneObjs |-> laneObjs,
                   lanes |-> MapPut(lanes, laneObjs[c].id, c),
                   pts |-> center_line_pts,
                   list |-> <<>>]
           st1 == ConvertLaneList(st0, ele_section.left, 1, sec_id, c)
           st2 == [st1 EXCEPT !.laneObjs = ResetRefeLine(@, c), !.list = <<>>]
           st3 == ConvertLaneList(st2, ele_section.right, 1, sec_id, c)
       IN  /\ laneObjs' = st3.laneObjs
           /\ lanes' = st3.lanes
           /\ center_line_pts' = st3.pts
           /\ secObjs' = [secObjs EXCEPT ![section].left_lanes = st1.list,
                                         ![section].right_lanes = st3.list]
    /\ sec_it' = sec_it + 1
    /\ pc' = "secloop"
    /\ UNCHANGED <<status, step_, ele_map, header, roads, sections, junctions, roadObjs,
                   road_it, road, section, section_idx, road_ds, section_ds, point_idx,
                   geometry_type, lookup_miss, lookup_lib, runVars, kdVars>>

\* Convertor::ConvertRoad, line 113: the road enters the roads map under its id
RoadInsert ==
    /\ pc = "roadinsert"
    /\ roads' = MapPut(roads, roadObjs[road].id, road)
    /\ road_it' = road_it + 1
    /\ pc' = "roadloop"
    /\ UNCHANGED <<status, step_, ele_map, center_line_pts, header, sections, lanes,
                   junctions, roadObjs, secObjs, laneObjs, road, sec_it, section,
                   section_idx, road_ds, section_ds, point_idx, geometry_type, lookup_miss,
                   lookup_lib, runVars, kdVars>>

RECURSIVE ConvertJunctionLoop_NoSkip(_, _, _)
\* faulty variant: the test of the junction's id is missing
ConvertJunctionLoop_NoSkip(acc, ele_junctions, k) ==
    IF k > Len(ele_junctions) THEN acc
    ELSE ConvertJunctionLoop_NoSkip(
             MapPut(acc, <<ele_junctions[k]>>, [id |-> <<ele_junctions[k]>>]),
             ele_junctions, k + 1)

RECURSIVE ConvertJunctionLoop(_, _, _)
\* lines 87-92: junctions with a negative id are skipped
ConvertJunctionLoop(acc, ele_junctions, k) ==
    IF k > Len(ele_junctions) THEN acc
    ELSE ConvertJunctionLoop(
             IF ele_junctions[k] < 0 THEN acc
             ELSE MapPut(acc, <<ele_junctions[k]>>, [id |-> <<ele_junctions[k]>>]),
             ele_junctions, k + 1)

\* Convertor::ConvertJunction
ConvertJunction ==
    /\ pc = "junction"
    /\ junctions' = IF Continue THEN ConvertJunctionLoop(junctions, ele_map.junctions, 1)
                    ELSE junctions
    /\ pc' = "kdtree"
    /\ UNCHANGED <<status, step_, ele_map, center_line_pts, header, roads, sections, lanes,
                   roadObjs, secObjs, laneObjs, road_it, road, sec_it, section, section_idx,
                   road_ds, section_ds, point_idx, geometry_type, lookup_miss, lookup_lib, runVars, kdVars>>

\* Convertor::BuildKDTree: KDTree::Init over center_line_pts_, in one thread
BuildKDTree ==
    /\ pc = "kdtree"
    /\ IF Continue
       THEN /\ adaptor_matrix' = AdaptorInit(center_line_pts).matrix
            /\ adaptor_ids' = AdaptorInit(center_line_pts).ids
            /\ index_' = NewIndex(center_line_pts)
            /\ b_samples' = center_line_pts
            /\ b_before' = IndexedBefore
       ELSE UNCHANGED <<treeVars, b_samples, b_before>>
    /\ pc' = "end"
    /\ UNCHANGED <<status, step_, ele_map, center_line_pts, header, roads, sections, lanes,
                   junctions, roadObjs, secObjs, laneObjs, road_it, road, sec_it, section,
                   section_idx, road_ds, section_ds, point_idx, geometry_type, lookup_miss,
                   lookup_lib, runVars, rw_lock, b_pc, queryVars>>

\* Convertor::End, then the return of Start
End ==
    /\ pc = "end"
    /\ center_line_pts' = IF Continue THEN <<>> ELSE center_line_pts
    /\ pc' = "done"
    /\ UNCHANGED <<status, step_, ele_map, header, roads, sections, lanes, junctions,
                   roadObjs, secObjs, laneObjs, road_it, road, sec_it, section, section_idx,
                   road_ds, section_ds, point_idx, geometry_type, lookup_miss, lookup_lib, runVars, kdVars>>

Next ==
    \/ Start
    \/ ConvertHeader
    \/ ConvertRoad
    \/ RoadIter
    \/ SectionIter
    \/ CenterLaneSamplingStep
    \/ ConvertLanes
    \/ RoadInsert
    \/ ConvertJunction
    \/ BuildKDTree
    \/ End

Spec == Init /\ [][Next]_vars

(***************************************************************************)
(* Start called again on the same Convertor, with the same repository and  *)
(* the same k-d tree. Start takes no argument: it reads the parameter      *)
(* object of the factory again, so the call gets the input of the first    *)
(* call, unless the factory objects or the map file have gone missing.     *)
(***************************************************************************)
LaneValueAt(a) == IF a = 0 THEN NewLane ELSE laneObjs[a]

\* a section with its lanes in place of their addresses
SectionValueAt(a) ==
    [secObjs[a] EXCEPT !.center_lane = LaneValueAt(secObjs[a].center_lane),
                       !.left_lanes = [k \in 1..Len(secObjs[a].left_lanes) |->
                                          LaneValueAt(secObjs[a].left_lanes[k])],
                       !.right_lanes = [k \in 1..Len(secObjs[a].right_lanes) |->
                                           LaneValueAt(secObjs[a].right_lanes[k])]]

\* a road with its sections in place of their addresses
RoadValueAt(a) ==
    [roadObjs[a] EXCEPT !.sections = [k \in 1..Len(roadObjs[a].sections) |->
                                         SectionValueAt(roadObjs[a].sections[k])]]

\* the contents of the repository: every map with the objects it leads to
RepositoryValue ==
    [header |-> header,
     roads |-> [id \in DOMAIN roads |-> RoadValueAt(roads[id])],
     sections |-> [id \in DOMAIN sections |-> SectionValueAt(sections[id])],
     lanes |-> [id \in DOMAIN lanes |-> LaneValueAt(lanes[id])],
     junctions |-> junctions]

\* what a call of Start has left behind when it returns
Outcome ==
    [in |-> run_in, ran |-> TRUE, status |-> status, repository |-> RepositoryValue,
     pts |-> center_line_pts, matrix |-> adaptor_matrix, ids |-> adaptor_ids,
     index |-> index_]

\* a further call of Start, after the call before has returned: with the first
\* input again, or with the factory objects or the map file gone
Rerun ==
    /\ pc = "done"
    /\ runs < MaxRuns
    /\ \E in \in {first_in} \cup InitFailures : StartCall(in)
    /\ prev' = IF run_in = first_in THEN Outcome ELSE prev
    /\ UNCHANGED first_in

NextRerun == Next \/ Rerun

SpecRerun == Init /\ [][NextRerun]_vars

\* the thread of Start has a step to take: Start has not returned, and the
\* model's bound on the samples of one section does not hold the loop back
Running ==
    /\ pc # "done"
    /\ pc = "sampling"
          => (SamplingBreaks(section_ds, secObjs[section].length, step_)
                  \/ point_idx < MaxSamples)

\* what a step of Next does to the position of the thread: every step of Next
\* moves pc, the road loop or the sample counter, and one is possible exactly
\* when Running holds
Advance ==
    /\ Running
    /\ pc' \in {"header", "road", "roadloop", "secloop", "sampling", "lanes", "roadinsert",
                "junction", "kdtree", "end", "done"}
    /\ road_it' \in 0..(MaxRoads + 1)
    /\ point_idx' \in 0..MaxSamples
    /\ <<pc', road_it', point_idx'>> # <<pc, road_it, point_idx>>

\* Start runs in one thread that is never suspended for ever: while it has a
\* step to take, it takes one
SpecLive == Init /\ [][Next]_vars /\ WF_<<pc, road_it, point_idx>>(Advance)

(***************************************************************************)
(* KDTree::Search (part_000, lines 36-55) and the nanoflann search it      *)
(* calls. Indices are 0-based, as in the code. Distances handed back by    *)
(* the search are squared; Search takes their root, kept here to one       *)
(* decimal place (in tenths).                                              *)
(***************************************************************************)
\* nanoflann::L2_Simple_Adaptor: the squared distance of the query to a node
Dist2(x, y, node) == (x - node[1]) * (x - node[1]) + (y - node[2]) * (y - node[2])

RECURSIVE SqrtBetween(_, _, _)
\* the largest r in lo..hi with r * r <= n, by bisection
SqrtBetween(n, lo, hi) ==
    IF lo >= hi THEN lo
    ELSE LET mid == (lo + hi + 1) \div 2
         IN  IF mid * mid <= n THEN SqrtBetween(n, mid, hi) ELSE SqrtBetween(n, lo, mid - 1)

\* std::sqrt, in tenths: the largest r with r * r <= 100 * d2
Sqrt(d2) == SqrtBetween(100 * d2, 0, 10 * d2)

Min(a, b) == IF a <= b THEN a ELSE b

Injective(f) == \A i, j \in DOMAIN f : f[i] = f[j] => i = j

\* the vectors indices and dists of Search, line 39-40: num_closest zeros
ZeroKnn(k) == [indices |-> [i \in 1..k |-> 0], dists |-> [i \in 1..k |-> 0]]

RECURSIVE NearestFirst(_, _, _, _, _)
\* the ways of listing the m nearest of the points left, nearest first; ties in any order
NearestFirst(matrix, x, y, left, m) ==
    IF m = 0 \/ left = {} THEN {<<>>}
    ELSE LET nearest == {j \in left : \A i \in left :
                            Dist2(x, y, matrix[j + 1]) <= Dist2(x, y, matrix[i + 1])}
         IN  UNION {{<<j>> \o s : s \in NearestFirst(matrix, x, y, left \ {j}, m - 1)} :
                       j \in nearest}

\* nanoflann knnSearch over an index that matches the adaptor: the m =
\* min(k, n) nearest points fill the first m places in ascending squared
\* distance, ties in any order; the places after m keep their zeros.
KnnSearch(matrix, index, x, y, k) ==
    LET n == index.size
        m == Min(k, n)
    IN  {[indices |-> [i \in 1..k |-> IF i <= m THEN s[i] ELSE 0],
          dists |-> [i \in 1..k |-> IF i <= m THEN Dist2(x, y, matrix[s[i] + 1]) ELSE 0]] :
            s \in NearestFirst(matrix, x, y, 0..(n - 1), m)}

\* the same search while another thread is inside KDTree::Init, the adaptor
\* replaced and the index not yet rebuilt: a data race, any indices the stale
\* tree holds may come back
StaleKnnSearch(index, k) ==
    {[indices |-> s, dists |-> [i \in 1..k |-> 0]] : s \in [1..k -> 0..Max(index.size - 1, 0)]}

\* faulty variant: results.clear() is missing
SearchClear_Kept(results) == results

\* line 38: results.clear()
SearchClear(results) == <<>>

\* faulty variant: the id is read at the position in the result list, not at the found index
ResultAt_IdByPosition(matrix, ids, knn, i) ==
    [x |-> matrix[knn.indices[i] + 1][1],
     y |-> matrix[knn.indices[i] + 1][2],
     id |-> ids[i],
     dist |-> Sqrt(knn.dists[i])]

\* lines 48-51: the i-th result
ResultAt(matrix, ids, knn, i) ==
    [x |-> matrix[knn.indices[i] + 1][1],
     y |-> matrix[knn.indices[i] + 1][2],
     id |-> ids[knn.indices[i] + 1],
     dist |-> Sqrt(knn.dists[i])]

\* faulty variant: the check that num_closest exceeds the point count is missing
SearchRejects_Never(matrix, knn) == FALSE

\* line 43: more results asked for than the adaptor holds points
SearchRejects(matrix, knn) == Len(knn.indices) > Len(matrix)

RECURSIVE SearchLoop(_, _, _, _, _)
\* lines 47-53; matrix().at() and ids().at() throw std::out_of_range
SearchLoop(matrix, ids, knn, results, i) ==
    IF i > Len(knn.indices) THEN [ret |-> 0, results |-> results, threw |-> FALSE]
    ELSE IF knn.indices[i] + 1 > Len(matrix) \/ knn.indices[i] + 1 > Len(ids)
         THEN [ret |-> 0, results |-> results, threw |-> TRUE]
         ELSE SearchLoop(matrix, ids, knn, Append(results, ResultAt(matrix, ids, knn, i)), i + 1)

\* lines 43-54: what Search returns and leaves in results
SearchCollect(matrix, ids, knn, results) ==
    IF SearchRejects(matrix, knn)
    THEN [ret |-> -1, results |-> results, threw |-> FALSE]
    ELSE SearchLoop(matrix, ids, knn, results, 1)

(***************************************************************************)
(* The clients of the index: a thread that builds it (KDTree::Init) and    *)
(* threads that query it (KDTree::Search).                                 *)
(***************************************************************************)
\* the sample coordinates of the example of the specification
KDCoords == {<<0, 0>>, <<1, 0>>, <<5, 0>>}

\* a sample list, in the order of sampling along a road (x does not decrease;
\* a position is sampled once, or twice where two sections meet): the k-th
\* sample carries the id <<k>>
KDSamples ==
    {[k \in 1..Len(cs) |-> [x |-> cs[k][1], y |-> cs[k][2], id |-> <<k>>]] :
        cs \in {c \in SeqsUpTo(KDCoords, MaxPoints) :
                  /\ \A k \in 1..(Len(c) - 1) : c[k][1] <= c[k + 1][1]
                  /\ \A k \in 1..(Len(c) - 2) : c[k] # c[k + 2]}}

KDQueries ==
    {[x |-> p[1], y |-> p[2], num_closest |-> k] :
        p \in {<<0, 0>>, <<3, 4>>}, k \in {1, 2, MaxPoints, MaxK}}

NoCrash == \A t \in Threads : q_pc[t] \notin {"crashed", "threw"}

\* the sample lists and queries of the interleaved clients
ConcSamples == {s \in KDSamples : Len(s) = 1 \/ (Len(s) = 2 /\ s[1].x < s[2].x /\ s[2].x = 1)}

ConcQueries == [x : {0}, y : {0}, num_closest : 1..2]

\* KDTree::Init, line 58: the write lock is taken
InitLock ==
    /\ NoCrash
    /\ b_pc = "idle"
    /\ rw_lock = "free"
    /\ rw_lock' = "write"
    /\ \E samples \in ConcSamples : b_samples' = samples
    /\ b_before' = IndexedBefore
    /\ b_pc' = "locked"
    /\ UNCHANGED <<convVars, treeVars, queryVars>>

\* KDTree::Init, line 62: the adaptor's points and ids are replaced
InitAdaptor ==
    /\ NoCrash
    /\ b_pc = "locked"
    /\ adaptor_matrix' = AdaptorInit(b_samples).matrix
    /\ adaptor_ids' = AdaptorInit(b_samples).ids
    /\ b_pc' = "adaptor"
    /\ UNCHANGED <<convVars, index_, rw_lock, b_samples, b_before, queryVars>>

\* KDTree::Init, lines 63-64: the index is rebuilt and the guard releases the lock
InitIndex ==
    /\ NoCrash
    /\ b_pc = "adaptor"
    /\ index_' = NewIndex(b_samples)
    /\ rw_lock' = "free"
    /\ b_pc' = "idle"
    /\ UNCHANGED <<convVars, adaptor_matrix, adaptor_ids, b_samples, b_before, queryVars>>

\* the vectors knnSearch can leave for thread t, line 42
KnnOutcomes(t) ==
    IF index_.size = Len(adaptor_matrix)
    THEN KnnSearch(adaptor_matrix, index_, q_arg[t].x, q_arg[t].y, q_arg[t].num_closest)
    ELSE StaleKnnSearch(index_, q_arg[t].num_closest)

\* KDTree::Search, lines 38-41: no lock is taken; results is cleared
SearchBegin(t) ==
    /\ NoCrash
    /\ q_pc[t] = "idle"
    /\ \E arg \in ConcQueries :
          /\ q_arg' = [q_arg EXCEPT ![t] = arg]
          /\ q_knn' = [q_knn EXCEPT ![t] = ZeroKnn(arg.num_closest)]
    /\ q_results' = [q_results EXCEPT ![t] = SearchClear(@)]
    /\ q_pc' = [q_pc EXCEPT ![t] = "knn"]
    /\ UNCHANGED <<convVars, treeVars, buildVars, q_ret>>

\* KDTree::Search, line 42: index_->knnSearch; a null index_ is dereferenced
SearchKnn(t) ==
    /\ NoCrash
    /\ q_pc[t] = "knn"
    /\ IF index_.null
       THEN /\ q_pc' = [q_pc EXCEPT ![t] = "crashed"]
            /\ UNCHANGED q_knn
       ELSE /\ \E knn \in KnnOutcomes(t) : q_knn' = [q_knn EXCEPT ![t] = knn]
            /\ q_pc' = [q_pc EXCEPT ![t] = "collect"]
    /\ UNCHANGED <<convVars, treeVars, buildVars, q_arg, q_results, q_ret>>

\* KDTree::Search, lines 43-54: the size check and the result loop
SearchReturn(t) ==
    /\ NoCrash
    /\ q_pc[t] = "collect"
    /\ LET out == SearchCollect(adaptor_matrix, adaptor_ids, q_knn[t], q_results[t])
       IN  /\ q_results' = [q_results EXCEPT ![t] = out.results]
           /\ q_ret' = [q_ret EXCEPT ![t] = IF out.threw THEN q_ret[t] ELSE out.ret]
           /\ q_pc' = [q_pc EXCEPT ![t] = IF out.threw THEN "threw" ELSE "idle"]
    /\ UNCHANGED <<convVars, treeVars, buildVars, q_arg, q_knn>>

\* the interleavings of one building thread and the query threads
NextConc ==
    \/ InitLock
    \/ InitAdaptor
    \/ InitIndex
    \/ \E t \in Threads : SearchBegin(t)
    \/ \E t \in Threads : SearchKnn(t)
    \/ \E t \in Threads : SearchReturn(t)

SpecConc == Init /\ [][NextConc]_vars

(***************************************************************************)
(* One client that builds and queries in turn: each call of KDTree::Init   *)
(* and of KDTree::Search runs from its first line to its return.           *)
(***************************************************************************)
\* KDTree::Init; the client builds (and rebuilds) the index before it queries it
KDBuild ==
    /\ NoCrash
    /\ q_arg[1] = NoArg
    /\ \E samples \in KDSamples :
          /\ b_samples' = samples
          /\ adaptor_matrix' = AdaptorInit(samples).matrix
          /\ adaptor_ids' = AdaptorInit(samples).ids
          /\ index_' = NewIndex(samples)
    /\ b_before' = IndexedBefore
    /\ UNCHANGED <<convVars, rw_lock, b_pc, queryVars>>

\* KDTree::Search, called by thread 1
KDSearch ==
    /\ NoCrash
    /\ \E arg \in KDQueries :
          /\ q_arg' = [q_arg EXCEPT ![1] = arg]
          /\ IF index_.null
             THEN /\ q_pc' = [q_pc EXCEPT ![1] = "crashed"]
                  /\ q_knn' = [q_knn EXCEPT ![1] = ZeroKnn(arg.num_closest)]
                  /\ q_results' = [q_results EXCEPT ![1] = SearchClear(@)]
                  /\ UNCHANGED q_ret
             ELSE \E knn \in KnnSearch(adaptor_matrix, index_, arg.x, arg.y, arg.num_closest) :
                     LET out == SearchCollect(adaptor_matrix, adaptor_ids, knn,
                                              SearchClear(q_results[1]))
                     IN  /\ q_knn' = [q_knn EXCEPT ![1] = knn]
                         /\ q_results' = [q_results EXCEPT ![1] = out.results]
                         /\ q_ret' = [q_ret EXCEPT ![1] = IF out.threw THEN q_ret[1] ELSE out.ret]
                         /\ q_pc' = [q_pc EXCEPT ![1] = IF out.threw THEN "threw" ELSE "idle"]
    /\ UNCHANGED <<convVars, treeVars, buildVars>>

NextKD == KDBuild \/ KDSearch

SpecKD == Init /\ [][NextKD]_vars

(***************************************************************************)
(* Vocabulary of the properties.                                           *)
(***************************************************************************)
Done == pc = "done"

\* the sampling of the center lane of section a has ended
Sampled(a) == secObjs[a].center_lane # 0 /\ ~(a = section /\ pc = "sampling")

\* ConvertSection has finished the lanes of section a
LanesConverted(a) ==
    secObjs[a].center_lane # 0 /\ ~(a = section /\ pc \in {"sampling", "lanes"})

\* the arc-length positions of a curve
Positions(curve) == [k \in 1..Len(curve) |-> curve[k].start_position]

\* 0, d, 2d, ... up to length, then length itself when it is no multiple of d
ExpectedPositions(d, length) ==
    LET n == length \div d
        whole == [k \in 1..(n + 1) |-> (k - 1) * d]
    IN  IF n * d = length THEN whole ELSE Append(whole, length)

\* two curves agree pointwise in position and in (x, y)
SamePoints(p, q) ==
    /\ Len(p) = Len(q)
    /\ \A k \in 1..Len(p) :
          /\ p[k].start_position = q[k].start_position
          /\ p[k].x = q[k].x
          /\ p[k].y = q[k].y

Entry(p) == [x |-> p.x, y |-> p.y, id |-> p.id]

RECURSIVE CurveEntries(_, _)
\* the central-curve points of the lanes at addrs[k..], in order
CurveEntries(addrs, k) ==
    IF k > Len(addrs) THEN <<>>
    ELSE [i \in 1..Len(laneObjs[addrs[k]].central_curve) |->
             Entry(laneObjs[addrs[k]].central_curve[i])]
         \o CurveEntries(addrs, k + 1)

RECURSIVE SectionEntries(_, _)
\* the central-curve points of the left, then the right lanes of the sections at addrs[k..]
SectionEntries(addrs, k) ==
    IF k > Len(addrs) THEN <<>>
    ELSE CurveEntries(secObjs[addrs[k]].left_lanes, 1)
         \o CurveEntries(secObjs[addrs[k]].right_lanes, 1)
         \o SectionEntries(addrs, k + 1)

RECURSIVE RoadEntries(_)
\* the same over the sections of the roads converted in this run, from road k on
RoadEntries(k) ==
    IF k > Len(roadObjs) THEN <<>>
    ELSE SectionEntries(roadObjs[k].sections, 1) \o RoadEntries(k + 1)

\* what the index was built over: coordinates and ids, position by position
IndexedEntries ==
    [k \in 1..Len(adaptor_matrix) |->
        [x |-> adaptor_matrix[k][1], y |-> adaptor_matrix[k][2], id |-> adaptor_ids[k]]]

Range(s) == {s[k] : k \in 1..Len(s)}

\* the central-curve points of every lane object, the center lanes included
AllLaneEntries ==
    UNION {{Entry(laneObjs[a].central_curve[i]) : i \in 1..Len(laneObjs[a].central_curve)} :
              a \in 1..Len(laneObjs)}

(***************************************************************************)
(* C1. Once the center-lane error has been recorded, no entry is inserted  *)
(* into the roads, sections or lanes map of the repository. The code       *)
(* breaks it: ConvertRoad, line 113, inserts the road that owns the        *)
(* failing section, and every later road under the empty id.               *)
(***************************************************************************)
C1_NoInsertAfterCenterLaneError ==
    [][(status.error_code = "CONVERTOR_CENTERLANE_ERROR"
            /\ status.msg.text = " center lane size not equal 1.")
        => (roads' = roads /\ sections' = sections /\ lanes' = lanes)]_vars

(***************************************************************************)
(* C2. Within one run of Start, once the status is an error it is never    *)
(* written again: the caller gets the first error. The code breaks it:     *)
(* ConvertSection goes on to the next section after a failed geometry      *)
(* lookup and overwrites the status at line 165.                           *)
(***************************************************************************)
C2_FirstErrorKept ==
    [][(pc # "done" /\ status.error_code # "OK") => status' = status]_vars

(***************************************************************************)
(* C3. A query never runs concurrently with a build: no thread takes a     *)
(* reading step of Search (the knnSearch of line 42, the result loop of    *)
(* lines 43-54) while Init has replaced the adaptor's data and not yet     *)
(* reset the index. The code breaks it: Search takes no lock at all.       *)
(***************************************************************************)
C3_NoReadDuringBuild ==
    [][\A t \in Threads :
          b_pc = "adaptor" => ~(q_pc[t] \in {"knn", "collect"} /\ q_pc'[t] # q_pc[t])]_vars

(***************************************************************************)
(* C4. After Build over N points, Query(x, y, k) with k <= N returns 0 and *)
(* exactly k results in non-decreasing distance; they are k distinct       *)
(* indexed points, none farther than a point left out, each with the       *)
(* coordinates, the id and the distance of one indexed point.              *)
(***************************************************************************)
Answered == q_arg[1] # NoArg /\ q_pc[1] = "idle"

IndexedResult(j, x, y) ==
    [x |-> adaptor_matrix[j][1], y |-> adaptor_matrix[j][2], id |-> adaptor_ids[j],
     dist |-> Sqrt(Dist2(x, y, adaptor_matrix[j]))]

C4_KNearestInOrder ==
    (Answered /\ q_arg[1].num_closest <= Len(adaptor_matrix))
        => LET k == q_arg[1].num_closest
               n == Len(adaptor_matrix)
               r == q_results[1]
               d2(j) == Dist2(q_arg[1].x, q_arg[1].y, adaptor_matrix[j])
           IN  /\ q_ret[1] = 0
               /\ Len(r) = k
               /\ \A i \in 1..(k - 1) : r[i].dist <= r[i + 1].dist
               /\ \E sel \in [1..k -> 1..n] :
                     /\ Injective(sel)
                     /\ \A i \in 1..k : r[i] = IndexedResult(sel[i], q_arg[1].x, q_arg[1].y)
                     /\ \A i \in 1..(k - 1) : d2(sel[i]) <= d2(sel[i + 1])
                     /\ \A j \in 1..n :
                           (\A i \in 1..k : sel[i] # j) => \A i \in 1..k : d2(sel[i]) <= d2(j)

\* the example: over (0,0), (1,0), (5,0), Query(0, 0, 2) returns the first at 0, then the second at 1
C4_Witness ==
    /\ Answered
    /\ adaptor_matrix = <<<<0, 0>>, <<1, 0>>, <<5, 0>>>>
    /\ q_arg[1] = [x |-> 0, y |-> 0, num_closest |-> 2]
    /\ q_results[1] = <<[x |-> 0, y |-> 0, id |-> <<1>>, dist |-> 0],
                        [x |-> 1, y |-> 0, id |-> <<2>>, dist |-> 10]>>

(***************************************************************************)
(* C5. After Build over N points, a Query with k > N returns -1, leaves    *)
(* the caller's result list empty, whatever it held before, and changes    *)
(* neither the indexed points, nor the ids, nor the index.                 *)
(***************************************************************************)
C5_TooManyRejected ==
    [][(/\ <<q_arg, q_knn, q_results, q_ret>>' # <<q_arg, q_knn, q_results, q_ret>>
        /\ q_pc'[1] = "idle"
        /\ q_arg'[1].num_closest > Len(adaptor_matrix))
        => (/\ q_ret'[1] = -1
            /\ q_results'[1] = <<>>
            /\ UNCHANGED treeVars)]_vars

\* a query for more points than the index holds, answered -1 with an empty list
C5_Witness ==
    /\ Answered
    /\ Len(adaptor_matrix) >= 2
    /\ q_arg[1].num_closest > Len(adaptor_matrix)
    /\ q_ret[1] = -1
    /\ q_results[1] = <<>>

C7_LookupMissFails ==
    (Done /\ lookup_miss # {}) => status.error_code # "OK"

(***************************************************************************)
(* C8. Lane stitching. After ConvertSection has converted the lanes of a   *)
(* section, on each side every lane's left boundary equals the right       *)
(* boundary of the lane before it, pointwise in position and (x, y), and   *)
(* the first lane's left boundary equals the center lane's samples.        *)
(***************************************************************************)
Stitched(c, side) ==
    /\ \A i \in 1..(Len(side) - 1) :
          SamePoints(laneObjs[side[i + 1]].left_boundary, laneObjs[side[i]].right_boundary)
    /\ Len(side) >= 1
          => SamePoints(laneObjs[side[1]].left_boundary, laneObjs[c].central_curve)

C8_LaneStitching ==
    \A a \in 1..Len(secObjs) :
        LanesConverted(a)
            => /\ Stitched(secObjs[a].center_lane, secObjs[a].left_lanes)
               /\ Stitched(secObjs[a].center_lane, secObjs[a].right_lanes)

\* a section with two left and two right lanes of non-zero width, all sampled
C8_Witness ==
    \E a \in 1..Len(secObjs) :
        /\ LanesConverted(a)
        /\ Len(secObjs[a].left_lanes) = 2
        /\ Len(secObjs[a].right_lanes) = 2
        /\ Len(laneObjs[secObjs[a].center_lane].central_curve) >= 2
        /\ \A l \in Range(secObjs[a].left_lanes) \cup Range(secObjs[a].right_lanes) :
              laneObjs[l].right_boundary[1].y # laneObjs[l].left_boundary[1].y

(***************************************************************************)
(* C9. After Start returned OK, every predecessor id, successor id and     *)
(* parent id resolves to an entry of the repository. The code breaks it:   *)
(* ConvertRoadAttr records any link id other than -1, whether or not a     *)
(* road of that id is converted.                                           *)
(***************************************************************************)
C9_IdsResolve ==
    (Done /\ Continue)
        => /\ \A id \in DOMAIN roads :
                 \A link \in roadObjs[roads[id]].predecessor_ids
                                 \cup roadObjs[roads[id]].successor_ids :
                     link \in DOMAIN roads
           /\ \A id \in DOMAIN sections : secObjs[sections[id]].parent_id \in DOMAIN roads
           /\ \A id \in DOMAIN lanes : laneObjs[lanes[id]].parent_id \in DOMAIN sections

(***************************************************************************)
(* C10 as stated. After a successful Start the index holds the central-    *)
(* curve points of every lane, the center lanes included. It fails: the    *)
(* center lane's points are never registered.                              *)
(***************************************************************************)
C10_IndexHoldsEveryLane ==
    (Done /\ Continue) => Range(IndexedEntries) = AllLaneEntries

(***************************************************************************)
(* C10 amended. After a successful Start the index was built over exactly  *)
(* the central-curve points of the left and right lanes (not of the center *)
(* lanes) of every section of every road converted in the run, each with   *)
(* its point id, in the order of conversion.                               *)
(***************************************************************************)
C10_IndexHoldsSideLanes ==
    (Done /\ Continue)
        => /\ IndexedEntries = RoadEntries(1)
           /\ index_ = [null |-> FALSE, size |-> Len(adaptor_matrix)]

\* a successful run over two roads whose lanes gave the index at least four points
C10_Witness ==
    /\ Done
    /\ Continue
    /\ Len(roadObjs) = 2
    /\ Len(adaptor_ids) >= 4
    /\ \E a \in 1..Len(laneObjs) : Len(laneObjs[a].central_curve) > 0 /\ Len(laneObjs[a].id) = 3
                                     /\ laneObjs[a].id[3] = 0

(***************************************************************************)
(* C12. Determinism across calls: when Start runs again on the same        *)
(* Convertor and the same repository with the input of an earlier call,    *)
(* it returns the same status and leaves the same repository contents      *)
(* (every map, with the objects it leads to, point by point and id by id), *)
(* the same collected centerline points and the same indexed points and    *)
(* ids: nothing accumulates and nothing is duplicated.                     *)
(***************************************************************************)
C12_RerunReproduces ==
    (Done /\ prev.ran /\ prev.in = run_in) => Outcome = prev

\* a second successful call over a map with lanes, which rebuilt an index of four points or more
C12_Witness ==
    /\ Done
    /\ prev.ran
    /\ prev.in = run_in
    /\ Continue
    /\ prev.status = StatusOK
    /\ Len(adaptor_matrix) >= 4
    /\ Len(laneObjs) > Cardinality(DOMAIN lanes)

(***************************************************************************)
(* C11. A rebuild replaces the index: after KDTree::Init over P2, whatever *)
(* was indexed before, the indexed coordinates and ids are those of P2, in *)
(* the same number and order; every result of a later query is a point of  *)
(* P2, and a query fails for too many points exactly when k > |P2|.        *)
(***************************************************************************)
C11_RebuildReplaces ==
    ~index_.null
        => /\ IndexedEntries = [k \in 1..Len(b_samples) |-> Entry(b_samples[k])]
           /\ index_.size = Len(b_samples)
           /\ Answered
                 => /\ q_ret[1] = -1 <=> q_arg[1].num_closest > Len(b_samples)
                    /\ \A i \in 1..Len(q_results[1]) :
                          \E j \in 1..Len(b_samples) :
                             /\ q_results[1][i].x = b_samples[j].x
                             /\ q_results[1][i].y = b_samples[j].y
                             /\ q_results[1][i].id = b_samples[j].id

\* three points were indexed, one point replaced them, and a query for two points failed
C11_Witness ==
    /\ b_before = 3
    /\ Len(b_samples) = 1
    /\ Len(adaptor_matrix) = 1
    /\ Answered
    /\ q_arg[1].num_closest = 2
    /\ q_ret[1] = -1

(***************************************************************************)
(* C13. A stage that finds the status non-OK is a no-op: once ConvertRoad  *)
(* has failed, ConvertJunction inserts no junction, BuildKDTree neither    *)
(* builds nor replaces the index, End keeps the collected centerline       *)
(* points, and none of them touches the status or the repository; a call   *)
(* of Start that fails during initialization returns with the repository   *)
(* and the index as it found them.                                         *)
(***************************************************************************)
C13_FailedStagesNoOp ==
    [][/\ (pc \in {"junction", "kdtree", "end"} /\ status.error_code # "OK")
              => UNCHANGED <<status, header, roads, sections, lanes, junctions, treeVars,
                             center_line_pts>>
       /\ (pc \in {"start", "done"} /\ pc' = "done")
              => UNCHANGED <<header, roads, sections, lanes, junctions, treeVars>>]_vars

\* a call that failed in ConvertRoad and returned: the junction of the input is
\* not in the repository, the index was never built, the points are still there
C13_Witness ==
    /\ Done
    /\ status.error_code = "CONVERTOR_CENTERLANE_ERROR"
    /\ ele_map.junctions # <<>>
    /\ junctions = EmptyMap
    /\ index_.null
    /\ center_line_pts # <<>>

(***************************************************************************)
(* C14. After ConvertSection has finished a section, the center lane's     *)
(* central curve, left boundary and right boundary are the same point      *)
(* sequence. The code breaks it: refe_line is a reference to the center    *)
(* lane's left boundary, so the assignment of line 210 copies each right   *)
(* lane's right boundary into it.                                          *)
(***************************************************************************)
C14_CenterCurvesCoincide ==
    \A a \in 1..Len(secObjs) :
        LanesConverted(a)
            => LET c == laneObjs[secObjs[a].center_lane]
               IN  c.left_boundary = c.central_curve /\ c.right_boundary = c.central_curve

(***************************************************************************)
(* C15. Every center-lane sample is evaluated at the road position of the  *)
(* section's first sample plus its own recorded s; so the sample clamped   *)
(* to the section's end is evaluated at the section's end on the road. The *)
(* code breaks it: line 249 subtracts section_ds - length after line 248   *)
(* has made them equal, and the road cursor stays past the end.            *)
(***************************************************************************)
C15_SampleEvaluatedAtItsPosition ==
    \A a \in 1..Len(secObjs) :
        secObjs[a].center_lane # 0
            => LET curve == laneObjs[secObjs[a].center_lane].central_curve
               IN  \A k \in 1..Len(curve) :
                      curve[k].x - curve[1].x
                          = curve[k].start_position - curve[1].start_position

(***************************************************************************)
(* C16. Along a road of contiguous sections the first sample of every      *)
(* section is evaluated at the section's start position on the road. The   *)
(* code breaks it: CenterLaneSampling leaves the road cursor one step      *)
(* past its last sample, and the next section starts there.                *)
(***************************************************************************)
C16_SectionStartsAtItsStart ==
    \A a \in 1..Len(secObjs) :
        (secObjs[a].center_lane # 0
            /\ laneObjs[secObjs[a].center_lane].central_curve # <<>>)
            => laneObjs[secObjs[a].center_lane].central_curve[1].x
                   = secObjs[a].start_position

(***************************************************************************)
(* C17. A road or a junction with a negative id is skipped silently. The   *)
(* step of ConvertRoad that meets such a road moves to the next road and   *)
(* changes nothing else: not the status, the repository, the objects, the  *)
(* collected points or the index, so what follows is converted as if the   *)
(* road were absent. ConvertJunction adds exactly the junctions of the     *)
(* input whose id is not negative. No id in the repository or the index    *)
(* starts with a negative road or junction number.                         *)
(***************************************************************************)
NoNegativeIds ==
    /\ \A id \in DOMAIN roads \cup DOMAIN sections \cup DOMAIN lanes \cup DOMAIN junctions :
          id # <<>> => id[1] >= 0
    /\ \A k \in 1..Len(adaptor_ids) : adaptor_ids[k][1] >= 0
    /\ \A k \in 1..Len(center_line_pts) : center_line_pts[k].id[1] >= 0

C17_NegativeIdSkipped ==
    [][/\ (pc = "roadloop" /\ road_it <= Len(ele_map.roads) /\ ele_map.roads[road_it].id < 0)
              => /\ road_it' = road_it + 1
                 /\ pc' = "roadloop"
                 /\ UNCHANGED <<status, header, roads, sections, lanes, junctions, roadObjs,
                                secObjs, laneObjs, center_line_pts, road_ds, treeVars>>
       /\ (pc = "junction" /\ status.error_code = "OK")
              => /\ DOMAIN junctions'
                        = DOMAIN junctions
                              \cup {<<ele_map.junctions[k]>> : k \in
                                        {i \in 1..Len(ele_map.junctions) :
                                            ele_map.junctions[i] >= 0}}
                 /\ status' = status
       /\ NoNegativeIds']_vars

\* a successful call over a road with id -1 followed by road 0, and the junctions -1 and 0:
\* road 0 and junction 0 are all the repository holds, and only road 0 is indexed
C17_Witness ==
    /\ Done
    /\ Continue
    /\ Len(ele_map.roads) = 2
    /\ ele_map.roads[1].id = 0 - 1
    /\ ele_map.roads[2].id = 0
    /\ ele_map.junctions = <<0 - 1, 0>>
    /\ DOMAIN roads = {<<0>>}
    /\ DOMAIN junctions = {<<0>>}
    /\ adaptor_ids # <<>>
    /\ NoNegativeIds

(***************************************************************************)
(* C18. The geometry markers of a center lane are one per maximal run of   *)
(* consecutive samples of the same geometry type, in sample order: a       *)
(* marker at the first sample and at every sample whose type differs from  *)
(* the type of the sample before it, each holding the type and the first   *)
(* sample of its run. The type of a sample is the type of the segment of   *)
(* the road's plan view that covers the position the sample was evaluated  *)
(* at.                                                                     *)
(***************************************************************************)
\* the road of the input a section was converted from
EleRoadOf(sec) == CHOOSE r \in Range(ele_map.roads) : <<r.id>> = sec.parent_id

\* the type of the first segment of geometrys whose upper bound exceeds s
TypeAt(geometrys, s) ==
    LET covering == {i \in 1..Len(geometrys) : s < geometrys[i].s + geometrys[i].length}
    IN  geometrys[CHOOSE i \in covering : \A j \in covering : i <= j].type

RECURSIVE RunMarkers(_, _, _)
\* one marker for each sample of curve[k..] whose type is not the type before it
RunMarkers(curve, geometrys, k) ==
    IF k > Len(curve) THEN <<>>
    ELSE LET type == TypeAt(geometrys, curve[k].x)
             first == k = 1 \/ TypeAt(geometrys, curve[k - 1].x) # type
         IN  (IF first THEN <<[type |-> type, point |-> curve[k]]>> ELSE <<>>)
                 \o RunMarkers(curve, geometrys, k + 1)

C18_OneMarkerPerRun ==
    \A a \in 1..Len(secObjs) :
        secObjs[a].center_lane # 0
            => LET c == laneObjs[secObjs[a].center_lane]
               IN  c.geometrys = RunMarkers(c.central_curve, EleRoadOf(secObjs[a]).geometrys, 1)

\* a section of five samples over a plan view that changes type after the second: two markers
C18_Witness ==
    \E a \in 1..Len(secObjs) :
        /\ secObjs[a].center_lane # 0
        /\ Sampled(a)
        /\ LET c == laneObjs[secObjs[a].center_lane]
           IN  /\ Len(c.central_curve) >= 4
               /\ Len(c.geometrys) = 2
               /\ c.geometrys[1].type # c.geometrys[2].type
               /\ c.geometrys[2].point = c.central_curve[3]

(***************************************************************************)
(* C20. After ConvertSection has finished a section, every left and right  *)
(* lane of it has a left boundary, a central curve and a right boundary    *)
(* of as many points as the center lane's central curve; the i-th point of *)
(* each carries the arc-length position of the i-th center-lane sample;    *)
(* the three points made from the i-th reference point carry the lane's    *)
(* id, the index i - 1 and the suffixes 1, 2 and 3.                        *)
(***************************************************************************)
SideLanes(a) == Range(secObjs[a].left_lanes) \cup Range(secObjs[a].right_lanes)

C20_LanePointsAligned ==
    \A a \in 1..Len(secObjs) :
        LanesConverted(a)
            => LET center == laneObjs[secObjs[a].center_lane].central_curve
               IN  \A l \in SideLanes(a) :
                      LET lane == laneObjs[l]
                      IN  /\ Len(lane.left_boundary) = Len(center)
                          /\ Len(lane.central_curve) = Len(center)
                          /\ Len(lane.right_boundary) = Len(center)
                          /\ \A i \in 1..Len(center) :
                                /\ lane.left_boundary[i].start_position
                                       = center[i].start_position
                                /\ lane.central_curve[i].start_position
                                       = center[i].start_position
                                /\ lane.right_boundary[i].start_position
                                       = center[i].start_position
                                /\ lane.left_boundary[i].id = lane.id \o <<i - 1, 1>>
                                /\ lane.central_curve[i].id = lane.id \o <<i - 1, 2>>
                                /\ lane.right_boundary[i].id = lane.id \o <<i - 1, 3>>

\* a finished section of three samples with two lanes on each side
C20_Witness ==
    \E a \in 1..Len(secObjs) :
        /\ LanesConverted(a)
        /\ Len(secObjs[a].left_lanes) = 2
        /\ Len(secObjs[a].right_lanes) = 2
        /\ Len(laneObjs[secObjs[a].center_lane].central_curve) = 3
        /\ \A l \in SideLanes(a) : Len(laneObjs[l].central_curve) = 3

(***************************************************************************)
(* C19. Conversion terminates: every call of Start returns, with OK or     *)
(* with an error; the sampling loop of every section ends, and a section   *)
(* of zero or negative length gets at most one sample.                     *)
(***************************************************************************)
C19_StartReturns ==
    /\ <>Done
    /\ [](\A a \in 1..Len(secObjs) :
             (secObjs[a].center_lane # 0 /\ secObjs[a].length <= 0)
                 => Len(laneObjs[secObjs[a].center_lane].central_curve) <= 1)

\* Start has returned OK after a section whose last sample was clamped, the loop
\* having ended at the iteration after it
C19_Witness ==
    /\ Done
    /\ Continue
    /\ \E a \in 1..Len(secObjs) :
          LET curve == laneObjs[secObjs[a].center_lane].central_curve
          IN  /\ secObjs[a].length > 0
              /\ secObjs[a].length % step_ # 0
              /\ Len(curve) = secObjs[a].length \div step_ + 2
              /\ curve[Len(curve)].start_position = secObjs[a].length

====
